---------------------------- MODULE Spec2Model ----------------------------
(***************************************************************************)
(* Model of pyrr's matrix33 and ray modules (src/pyrr/matrix33.py,         *)
(* src/pyrr/ray.py).                                                       *)
(*                                                                         *)
(* Numbers.  A float is modelled by an exact rational <<n, d>> in lowest   *)
(* terms with d > 0, extended by the three IEEE specials the code can      *)
(* produce through a division by zero: <<1, 0>> is +inf, <<-1, 0>> is -inf *)
(* and <<0, 0>> is nan.  Rounding is not modelled, so an equality below is *)
(* an equality of the real numbers the floats approximate.  Signed zeros   *)
(* are not modelled (x / 0 is taken as x / +0.0).                          *)
(*                                                                         *)
(* Arrays.  Every array holds floats, so the dtype a function takes from   *)
(* its input (dtype or x.dtype) is a float type and the conversion to it   *)
(* changes no element.                                                     *)
(***************************************************************************)
EXTENDS Integers, Sequences, FiniteSets, TLC

VARIABLES call, heap, held, last, writes

vars == <<call, heap, held, last, writes>>

-----------------------------------------------------------------------------
(* Float arithmetic *)

Abs(n) == IF n < 0 THEN -n ELSE n

Sgn(n) == IF n > 0 THEN 1 ELSE IF n < 0 THEN -1 ELSE 0

RECURSIVE GCD(_, _)
GCD(a, b) == IF b = 0 THEN a ELSE GCD(b, a % b)

\* The float n/d: lowest terms, positive denominator; d = 0 gives a special.
Q(n, d) ==
    IF d = 0 THEN <<Sgn(n), 0>>
    ELSE LET g == GCD(Abs(n), Abs(d))
         IN  <<(Sgn(d) * n) \div g, Abs(d) \div g>>

R(n) == <<n, 1>>

Zero == R(0)

One == R(1)

NaN == <<0, 0>>

IsFinite(a) == a[2] # 0

\* a + b; inf + (-inf) and nan + x are nan
Add(a, b) ==
    IF a[2] = 1 /\ b[2] = 1 THEN <<a[1] + b[1], 1>>
    ELSE IF IsFinite(a) /\ IsFinite(b)
    THEN LET g == GCD(a[2], b[2])
         IN  Q(a[1] * (b[2] \div g) + b[1] * (a[2] \div g), a[2] * (b[2] \div g))
    ELSE IF a = NaN \/ b = NaN THEN NaN
    ELSE IF ~IsFinite(a) /\ ~IsFinite(b) THEN (IF a = b THEN a ELSE NaN)
    ELSE IF IsFinite(a) THEN b ELSE a

Neg(a) == <<-a[1], a[2]>>

Sub(a, b) == Add(a, Neg(b))

\* a * b; inf * 0 and nan * x are nan
Mul(a, b) ==
    IF a[2] = 1 /\ b[2] = 1 THEN <<a[1] * b[1], 1>>
    ELSE IF IsFinite(a) /\ IsFinite(b)
    THEN LET g == GCD(Abs(a[1]), b[2])
             h == GCD(Abs(b[1]), a[2])
         IN  Q((a[1] \div g) * (b[1] \div h), (a[2] \div h) * (b[2] \div g))
    ELSE Q(a[1] * b[1], a[2] * b[2])

\* a / b; x / 0 is an infinity of x's sign, 0 / 0 is nan, x / inf is 0
Div(a, b) == Mul(a, IF b[1] < 0 THEN <<-b[2], -b[1]>> ELSE <<b[2], b[1]>>)

\* a ** 2
Pow2(a) == Mul(a, a)

-----------------------------------------------------------------------------
(* numpy helpers *)

RECURSIVE SumSeq(_)
SumSeq(s) == IF s = <<>> THEN Zero ELSE Add(Head(s), SumSeq(Tail(s)))

\* np.dot(vec, mat) for a vector of 3 and a (3,3) matrix: the row vector
\* times the matrix
DotVecMat(vec, mat) ==
    [j \in 1..3 |-> SumSeq([i \in 1..3 |-> Mul(vec[i], mat[i][j])])]

\* np.dot(m1, m2) for two (3,3) matrices
DotMatMat(m1, m2) ==
    [i \in 1..3 |-> [j \in 1..3 |->
        SumSeq([k \in 1..3 |-> Mul(m1[i][k], m2[k][j])])]]

\* np.linalg.norm(v), a square root, is kept as its square: [sq |-> v . v]
norm(v) == [sq |-> SumSeq([i \in 1..Len(v) |-> Pow2(v[i])])]

\* np.isclose(a, 1.) for a = sqrt(a.sq), with numpy's default rtol = 1e-5
\* and atol = 1e-8: |a - 1| <= atol + rtol * 1 = 1001 / 10^8.  With
\* a.sq = N / D this is (1 - tol)^2 <= N / D <= (1 + tol)^2, that is
\*    (N - D) * 10^16 <= D * (2002 * 10^8 + 100 * 10^4 + 2001)      and
\*    (D - N) * 10^16 <= D * (2002 * 10^8 - 100 * 10^4 - 2001),
\* each evaluated exactly by dividing both sides by 10^4 four times
\* (for integers M and X, M * 10^4 <= X iff M <= X \div 10^4).
isclose_to_one(a) ==
    LET N == a.sq[1]
        D == a.sq[2]
        hi == ((((D * 2001) \div 10000 + D * 100) \div 10000 + D * 2002)
                 \div 10000) \div 10000
        lo == ((((-(D * 2001)) \div 10000 - D * 100) \div 10000 + D * 2002)
                 \div 10000) \div 10000
    IN  /\ D # 0
        /\ N - D <= hi
        /\ D - N <= lo

-----------------------------------------------------------------------------
(* Angles, quaternions and results *)

\* An angle is given by the cosine and sine of its half, h = <<c, s>> with
\* c^2 + s^2 = 1: it is the record of its own cosine and sine, and of the
\* angle theta * 0.5.
Angle(h) ==
    [cos |-> Sub(Pow2(h[1]), Pow2(h[2])),
     sin |-> Mul(R(2), Mul(h[2], h[1])),
     half |-> [cos |-> h[1], sin |-> h[2]]]

\* theta * 0.5
TimesHalf(theta) == theta.half

\* np.cos, np.sin
np_cos(a) == a.cos

np_sin(a) == a.sin

\* An array whose elements are v[i] / sqrt(s), the shape a normalised array
\* has; a caller's array has s = 1.
QuatArray(v) == [v |-> v, s |-> One]

\* The product of two elements of one quaternion array, a / sqrt(s) and
\* b / sqrt(s)
Times(quat, a, b) == Div(Mul(a, b), quat.s)

\* quaternion.normalise(quat): a new array, each element divided by the norm
quaternion_normalise(quat) == [v |-> quat.v, s |-> Mul(quat.s, norm(quat.v).sq)]

\* vector.normalise(vec): a new array, each element divided by the norm
vector_normalise(vec) == [v |-> vec, s |-> norm(vec).sq]

\* What a call gives its caller: a value, or an exception and no value
Return(v) == [raised |-> "", value |-> v]

Raise(e) == [raised |-> e, value |-> <<>>]

-----------------------------------------------------------------------------
(* src/pyrr/matrix33.py *)

create_identity == <<<<One, Zero, Zero>>, <<Zero, One, Zero>>, <<Zero, Zero, One>>>>

create_from_eulers(eulers) ==
    LET pitchOver2 == TimesHalf(eulers[1])
        rollOver2 == TimesHalf(eulers[2])
        yawOver2 == TimesHalf(eulers[3])
        sinPitch == np_sin(pitchOver2)
        cosPitch == np_cos(pitchOver2)
        sinRoll == np_sin(rollOver2)
        cosRoll == np_cos(rollOver2)
        sinYaw == np_sin(yawOver2)
        cosYaw == np_cos(yawOver2)
    IN  <<
          << Add(Mul(cosYaw, cosRoll), Mul(Mul(sinYaw, sinPitch), sinRoll)),
             Add(Mul(Neg(cosYaw), sinRoll), Mul(Mul(sinYaw, sinPitch), cosRoll)),
             Mul(sinYaw, cosPitch) >>,
          << Mul(sinRoll, cosPitch),
             Mul(cosRoll, cosPitch),
             Neg(sinPitch) >>,
          << Add(Mul(Neg(sinYaw), cosRoll), Mul(Mul(cosYaw, sinPitch), sinRoll)),
             Add(Mul(sinRoll, sinYaw), Mul(Mul(cosYaw, sinPitch), cosRoll)),
             Mul(cosYaw, cosPitch) >>
        >>

\* The matrix of lines 102-145 for the array quat the name is bound to
QuaternionMatrix(quat) ==
    LET x == quat.v[1]
        y == quat.v[2]
        z == quat.v[3]
        w == quat.v[4]
        y2 == Times(quat, y, y)
        x2 == Times(quat, x, x)
        z2 == Times(quat, z, z)
        xy == Times(quat, x, y)
        xz == Times(quat, x, z)
        yz == Times(quat, y, z)
        wx == Times(quat, w, x)
        wy == Times(quat, w, y)
        wz == Times(quat, w, z)
    IN  <<
          << Sub(One, Mul(R(2), Add(y2, z2))),
             Mul(R(2), Add(xy, wz)),
             Mul(R(2), Sub(xz, wy)) >>,
          << Mul(R(2), Sub(xy, wz)),
             Sub(One, Mul(R(2), Add(x2, z2))),
             Mul(R(2), Add(yz, wx)) >>,
          << Mul(R(2), Add(xz, wy)),
             Mul(R(2), Sub(yz, wx)),
             Sub(One, Mul(R(2), Add(x2, y2))) >>
        >>

create_from_quaternion_unnormalised(quat) == QuaternionMatrix(QuatArray(quat))

create_from_quaternion(quat) ==
    LET arr == QuatArray(quat)
        used == IF ~isclose_to_one(norm(quat)) THEN quaternion_normalise(arr)
                ELSE arr
    IN  QuaternionMatrix(used)

create_from_inverse_of_quaternion(quat) ==
    LET arr == QuatArray(quat)
        x == quat[1]
        y == quat[2]
        z == quat[3]
        w == quat[4]
        x2 == Times(arr, x, x)
        y2 == Times(arr, y, y)
        z2 == Times(arr, z, z)
        wx == Times(arr, w, x)
        wy == Times(arr, w, y)
        xy == Times(arr, x, y)
        wz == Times(arr, w, z)
        xz == Times(arr, x, z)
        yz == Times(arr, y, z)
    IN  <<
          << Sub(One, Mul(R(2), Add(y2, z2))),
             Mul(R(2), Sub(xy, wz)),
             Mul(R(2), Add(xz, wy)) >>,
          << Mul(R(2), Add(xy, wz)),
             Sub(One, Mul(R(2), Add(x2, z2))),
             Mul(R(2), Sub(yz, wx)) >>,
          << Mul(R(2), Sub(xz, wy)),
             Mul(R(2), Sub(yz, wx)),
             Sub(One, Mul(R(2), Add(x2, y2))) >>
        >>

create_from_scale(scale) ==
    [i \in 1..3 |-> [j \in 1..3 |-> IF i = j THEN scale[i] ELSE Zero]]

create_from_x_rotation_transposed(theta) ==
    LET cosT == np_cos(theta)
        sinT == np_sin(theta)
    IN  << << One, Zero, Zero >>,
           << Zero, cosT, sinT >>,
           << Zero, Neg(sinT), cosT >> >>

create_from_x_rotation(theta) ==
    LET cosT == np_cos(theta)
        sinT == np_sin(theta)
    IN  << << One, Zero, Zero >>,
           << Zero, cosT, Neg(sinT) >>,
           << Zero, sinT, cosT >> >>

create_from_y_rotation(theta) ==
    LET cosT == np_cos(theta)
        sinT == np_sin(theta)
    IN  << << cosT, Zero, sinT >>,
           << Zero, One, Zero >>,
           << Neg(sinT), Zero, cosT >> >>

create_from_z_rotation(theta) ==
    LET cosT == np_cos(theta)
        sinT == np_sin(theta)
    IN  << << cosT, Neg(sinT), Zero >>,
           << sinT, cosT, Zero >>,
           << Zero, Zero, One >> >>

apply_to_vector_keeping_w(mat, vec) ==
    IF Len(vec) = 3 THEN Return(DotVecMat(vec, mat))
    ELSE IF Len(vec) = 4 THEN
        LET vec3 == [i \in 1..3 |-> Div(vec[i], vec[4])]
            out3 == DotVecMat(vec3, mat)
        IN  Return(<<out3[1], out3[2], out3[3], vec[4]>>)
    ELSE Raise("ValueError")

apply_to_vector_any_longer(mat, vec) ==
    IF Len(vec) = 3 THEN Return(DotVecMat(vec, mat))
    ELSE IF Len(vec) >= 4 THEN
        LET vec3 == [i \in 1..3 |-> Div(vec[i], vec[Len(vec)])]
            out3 == DotVecMat(vec3, mat)
        IN  Return(<<out3[1], out3[2], out3[3], One>>)
    ELSE Raise("ValueError")

apply_to_vector(mat, vec) ==
    IF Len(vec) = 3 THEN Return(DotVecMat(vec, mat))
    ELSE IF Len(vec) = 4 THEN
        LET vec3 == [i \in 1..3 |-> Div(vec[i], vec[4])]
            out3 == DotVecMat(vec3, mat)
        IN  Return(<<out3[1], out3[2], out3[3], One>>)
    ELSE Raise("ValueError")

multiply_swapped(m1, m2) == DotMatMat(m2, m1)

multiply(m1, m2) == DotMatMat(m1, m2)

\* np.linalg.inv(mat) solves mat . X = I by elimination with partial
\* pivoting, and raises LinAlgError("Singular matrix") at a pivot of 0.
\* Rows of [mat | I]:
Augmented(mat) == [i \in 1..3 |-> mat[i] \o create_identity[i]]

\* a < b, for finite a and b
Less(a, b) == a[1] * b[2] < b[1] * a[2]

Magnitude(a) == <<Abs(a[1]), a[2]>>

\* The first row at or below k with the largest entry in column k
PivotRow(A, k) ==
    CHOOSE p \in k..3 :
        /\ \A q \in k..3 : ~Less(Magnitude(A[p][k]), Magnitude(A[q][k]))
        /\ \A q \in k..(p - 1) : Less(Magnitude(A[q][k]), Magnitude(A[p][k]))

\* Row k and the pivot row change places, row k is divided by the pivot and
\* taken off the other rows
Eliminate(A, k) ==
    LET p == PivotRow(A, k)
        S == [i \in 1..3 |-> IF i = k THEN A[p] ELSE IF i = p THEN A[k] ELSE A[i]]
        pr == [j \in 1..6 |-> Div(S[k][j], S[k][k])]
    IN  [i \in 1..3 |->
            IF i = k THEN pr
            ELSE [j \in 1..6 |-> Sub(S[i][j], Mul(S[i][k], pr[j]))]]

RECURSIVE Solve(_, _)
Solve(A, k) ==
    IF k > 3 THEN Return([i \in 1..3 |-> [j \in 1..3 |-> A[i][j + 3]]])
    ELSE IF A[PivotRow(A, k)][k] = Zero THEN Raise("LinAlgError")
    ELSE Solve(Eliminate(A, k), k + 1)

inverse_of_transpose(mat) ==
    Solve(Augmented([i \in 1..3 |-> [j \in 1..3 |-> mat[j][i]]]), 1)

inverse(mat) == Solve(Augmented(mat), 1)

create_direction_scale(direction, scale) ==
    LET vector3 == IF ~isclose_to_one(norm(direction))
                   THEN vector_normalise(direction) ELSE <<>>
        scaleMinus1 == Sub(scale, One)
    IN  <<
          << Add(One, Mul(scaleMinus1, Pow2(direction[1]))),
             Mul(Mul(scaleMinus1, direction[1]), Pow2(direction[2])),
             Mul(Mul(scaleMinus1, direction[1]), direction[3]) >>,
          << Mul(Mul(scaleMinus1, direction[1]), direction[2]),
             Add(One, Mul(scaleMinus1, direction[2])),
             Mul(Mul(scaleMinus1, direction[2]), direction[3]) >>,
          << Mul(Mul(scaleMinus1, direction[1]), direction[3]),
             Mul(Mul(scaleMinus1, direction[2]), direction[3]),
             Add(One, Mul(scaleMinus1, Pow2(direction[3]))) >>
        >>

-----------------------------------------------------------------------------
(* Inputs *)

\* Angles theta whose half has tan(theta / 4) = n / m, for |m|, |n| <= MaxT
MaxT == 2

\* Quaternion elements are -MaxQ..MaxQ, also halved and doubled
MaxQ == 1

\* Vector elements are -MaxV..MaxV
MaxV == 1

\* Vectors handed to apply_to_vector have 0..MaxLen elements
MaxLen == 5

\* Entries of the general matrices are 0..MaxM, some negated
MaxM == 1

\* A quaternion off unit length by an element 1 / PerturbDen
PerturbDen == 300

Ints(k) == {R(i) : i \in -k..k}

Vecs(n, k) == [1..n -> Ints(k)]

ScaleVec(s, v) == [i \in 1..Len(v) |-> Mul(s, v[i])]

HalfAngles ==
    {<<Q(m * m - n * n, m * m + n * n), Q(2 * m * n, m * m + n * n)>> :
        <<m, n>> \in ((-MaxT..MaxT) \X (-MaxT..MaxT)) \ {<<0, 0>>}}

Angles == {Angle(h) : h \in HalfAngles}

ZeroAngle == Angle(<<One, Zero>>)

NearUnitQuats ==
    {[i \in 1..4 |-> IF i = j THEN One ELSE IF i = k THEN Q(e, PerturbDen) ELSE Zero] :
        <<j, k, e>> \in {t \in (1..4) \X (1..4) \X {-1, 1} : t[1] # t[2]}}

QuatInputs ==
    {ScaleVec(s, q) : s \in {Q(1, 2), One, R(2)}, q \in Vecs(4, MaxQ)}
        \cup NearUnitQuats

Scalings == {Q(1, 2), R(2), R(3)}

ScaleFactors == {R(0), Q(1, 2), R(1), R(2), R(-1)}

DirInputs ==
    Vecs(3, MaxV) \cup
    {<<Q(a, 5), Q(b, 5), Zero>> : <<a, b>> \in {<<3, 4>>, <<4, 3>>, <<-3, 4>>, <<4, -3>>}}
        \cup
    {<<Zero, Q(a, 5), Q(b, 5)>> : <<a, b>> \in {<<3, 4>>, <<-4, 3>>}}

RotationMats ==
    UNION {{create_from_x_rotation(a), create_from_y_rotation(a),
            create_from_z_rotation(a)} : a \in Angles}

Entries == {R(i) : i \in 0..MaxM}

GenMats ==
    {<<<<a, Neg(b), Zero>>, <<Zero, a, One>>, <<b, Zero, One>>>> :
        <<a, b>> \in Entries \X Entries}

MatInputs == {create_identity} \cup RotationMats \cup GenMats

InverseInputs ==
    {<<r1, r2, r3>> :
        <<r1, r2>> \in [1..3 -> Entries] \X [1..3 -> Entries],
        r3 \in {<<Zero, Zero, One>>, <<One, Zero, One>>}}
        \cup MatInputs
        \cup {create_from_scale(v) : v \in Vecs(3, MaxV)}

\* Every vector of up to 4 elements, and the longer ones of one repeated
\* element
VecInputs ==
    UNION {Vecs(n, MaxV) : n \in 0..4}
        \cup {[i \in 1..n |-> x] : n \in 5..MaxLen, x \in Ints(MaxV)}

-----------------------------------------------------------------------------
(* Calls of the matrix33 functions: a caller with no call outstanding makes *)
(* one, and holds its arguments and what it gave until it drops them.       *)

NoCall == [op |-> "none", args |-> <<>>, out |-> Return(<<>>)]

CallCreateFromEulers ==
    /\ call = NoCall
    /\ \E eulers \in Angles \X Angles \X Angles :
          /\ call' = [op |-> "create_from_eulers", args |-> <<eulers>>,
                      out |-> Return(create_from_eulers(eulers))]
          /\ UNCHANGED <<heap, held, last, writes>>

\* quat is rebound to the normalised array (line 100); the caller's array is
\* the one it passed
CallCreateFromQuaternion ==
    /\ call = NoCall
    /\ \E quat \in QuatInputs :
          /\ call' = [op |-> "create_from_quaternion", args |-> <<quat>>,
                      out |-> Return(create_from_quaternion(quat)),
                      after |-> <<quat>>]
          /\ UNCHANGED <<heap, held, last, writes>>

CallCreateFromInverseOfQuaternion ==
    /\ call = NoCall
    /\ \E quat \in QuatInputs :
          /\ call' = [op |-> "create_from_inverse_of_quaternion", args |-> <<quat>>,
                      out |-> Return(create_from_inverse_of_quaternion(quat))]
          /\ UNCHANGED <<heap, held, last, writes>>

CallCreateFromXRotation ==
    /\ call = NoCall
    /\ \E theta \in Angles :
          /\ call' = [op |-> "create_from_x_rotation", args |-> <<theta>>,
                      out |-> Return(create_from_x_rotation(theta))]
          /\ UNCHANGED <<heap, held, last, writes>>

CallCreateFromYRotation ==
    /\ call = NoCall
    /\ \E theta \in Angles :
          /\ call' = [op |-> "create_from_y_rotation", args |-> <<theta>>,
                      out |-> Return(create_from_y_rotation(theta))]
          /\ UNCHANGED <<heap, held, last, writes>>

CallCreateFromZRotation ==
    /\ call = NoCall
    /\ \E theta \in Angles :
          /\ call' = [op |-> "create_from_z_rotation", args |-> <<theta>>,
                      out |-> Return(create_from_z_rotation(theta))]
          /\ UNCHANGED <<heap, held, last, writes>>

CallCreateDirectionScale ==
    /\ call = NoCall
    /\ \E direction \in DirInputs, scale \in ScaleFactors :
          /\ call' = [op |-> "create_direction_scale", args |-> <<direction, scale>>,
                      out |-> Return(create_direction_scale(direction, scale))]
          /\ UNCHANGED <<heap, held, last, writes>>

CallApplyToVector ==
    /\ call = NoCall
    /\ \E mat \in MatInputs, vec \in VecInputs :
          /\ call' = [op |-> "apply_to_vector", args |-> <<mat, vec>>,
                      out |-> apply_to_vector(mat, vec)]
          /\ UNCHANGED <<heap, held, last, writes>>

CallMultiply ==
    /\ call = NoCall
    /\ \E m1 \in MatInputs, m2 \in MatInputs :
          /\ call' = [op |-> "multiply", args |-> <<m1, m2>>,
                      out |-> Return(multiply(m1, m2))]
          /\ UNCHANGED <<heap, held, last, writes>>

CallInverse ==
    /\ call = NoCall
    /\ \E mat \in InverseInputs :
          /\ call' = [op |-> "inverse", args |-> <<mat>>, out |-> inverse(mat)]
          /\ UNCHANGED <<heap, held, last, writes>>

Drop ==
    /\ call # NoCall
    /\ call' = NoCall
    /\ UNCHANGED <<heap, held, last, writes>>

Init ==
    /\ call = NoCall
    /\ heap = <<>>
    /\ held = {}
    /\ last = [op |-> "none"]
    /\ writes = 0

NextCreate ==
    \/ CallCreateFromEulers
    \/ CallCreateFromQuaternion
    \/ CallCreateFromInverseOfQuaternion
    \/ CallCreateFromXRotation
    \/ CallCreateFromYRotation
    \/ CallCreateFromZRotation
    \/ CallCreateDirectionScale
    \/ Drop

NextAlgebra ==
    \/ CallApplyToVector
    \/ CallMultiply
    \/ CallInverse
    \/ Drop

SpecCreate == Init /\ [][NextCreate]_vars

SpecAlgebra == Init /\ [][NextAlgebra]_vars

-----------------------------------------------------------------------------
(* Properties of the matrix33 functions *)

Transpose(m) == [i \in 1..3 |-> [j \in 1..3 |-> m[j][i]]]

Minor(m, i, j) ==
    LET r == IF i = 1 THEN <<2, 3>> ELSE IF i = 2 THEN <<1, 3>> ELSE <<1, 2>>
        c == IF j = 1 THEN <<2, 3>> ELSE IF j = 2 THEN <<1, 3>> ELSE <<1, 2>>
    IN  Sub(Mul(m[r[1]][c[1]], m[r[2]][c[2]]), Mul(m[r[1]][c[2]], m[r[2]][c[1]]))

Cofactor(m, i, j) == IF (i + j) % 2 = 0 THEN Minor(m, i, j) ELSE Neg(Minor(m, i, j))

\* The determinant of a (3,3) matrix
Det(m) == SumSeq([j \in 1..3 |-> Mul(m[1][j], Cofactor(m, 1, j))])

Dot3(u, v) == SumSeq([i \in 1..3 |-> Mul(u[i], v[i])])

IsUnit(v) == norm(v).sq = One

IsNonZero(v) == \E i \in 1..Len(v) : v[i] # Zero

\* C1: for a unit quaternion q, the transpose of create_from_quaternion(q)
\* equals create_from_inverse_of_quaternion(q) in all nine entries.
C1_TransposeIsInverse ==
    (call.op = "create_from_quaternion" /\ IsUnit(call.args[1]))
        => Transpose(call.out.value) = create_from_inverse_of_quaternion(call.args[1])

\* C2: for a unit direction n and a scale k, S = create_direction_scale(n, k)
\* takes n to k * n and every vector orthogonal to n to itself.
C2_ScalesAlongDirection ==
    (call.op = "create_direction_scale" /\ IsUnit(call.args[1]))
        => LET n == call.args[1]
               k == call.args[2]
               S == call.out.value
           IN  /\ apply_to_vector(S, n) = Return(ScaleVec(k, n))
               /\ \A v \in Vecs(3, MaxV) :
                     Dot3(v, n) = Zero => apply_to_vector(S, v) = Return(v)

\* C3, as claimed: create_from_x_rotation(theta) applied to (0, 1, 0) gives
\* (0, cos theta, sin theta).
C3_XRotationOfY_Claimed ==
    call.op = "create_from_x_rotation"
        => apply_to_vector(call.out.value, <<Zero, One, Zero>>)
             = Return(<<Zero, np_cos(call.args[1]), np_sin(call.args[1])>>)

\* C3, amended: create_from_x_rotation(theta) applied to (0, 1, 0) gives
\* (0, cos theta, -sin theta).
C3_XRotationOfY ==
    call.op = "create_from_x_rotation"
        => apply_to_vector(call.out.value, <<Zero, One, Zero>>)
             = Return(<<Zero, np_cos(call.args[1]), Neg(np_sin(call.args[1]))>>)

C3_Witness ==
    /\ call.op = "create_from_x_rotation"
    /\ np_sin(call.args[1]) # Zero
    /\ np_cos(call.args[1]) # Zero

\* C8: on an Euler triple with one angle theta and two zeros,
\* create_from_eulers is the rotation by theta about one axis:
\* (theta, 0, 0) gives create_from_x_rotation(theta), (0, theta, 0) gives
\* create_from_z_rotation(theta), (0, 0, theta) gives
\* create_from_y_rotation(theta).
C8_EulersOnOneAxis ==
    call.op = "create_from_eulers"
        => LET e == call.args[1]
               m == call.out.value
           IN  /\ (e[2] = ZeroAngle /\ e[3] = ZeroAngle) => m = create_from_x_rotation(e[1])
               /\ (e[1] = ZeroAngle /\ e[3] = ZeroAngle) => m = create_from_z_rotation(e[2])
               /\ (e[1] = ZeroAngle /\ e[2] = ZeroAngle) => m = create_from_y_rotation(e[3])

\* A quaternion whose norm the closeness test takes for 1 only when it is 1
NormIsDecided(q) == IsUnit(q) \/ ~isclose_to_one(norm(q))

\* C9, as claimed: for a non-zero quaternion q and a positive scalar s,
\* create_from_quaternion(s * q) equals create_from_quaternion(q), and the
\* caller's quaternion holds the same values after the call.
C9_ScaleInvariant_Claimed ==
    (call.op = "create_from_quaternion" /\ IsNonZero(call.args[1]))
        => /\ \A s \in Scalings :
                create_from_quaternion(ScaleVec(s, call.args[1])) = call.out.value
           /\ call.after = call.args

\* C9, amended: the same, for q and s such that neither q nor s * q has a
\* norm that is not 1 but close enough to 1 to pass for it.
C9_ScaleInvariant ==
    (call.op = "create_from_quaternion" /\ IsNonZero(call.args[1]))
        => /\ \A s \in Scalings :
                (NormIsDecided(call.args[1]) /\ NormIsDecided(ScaleVec(s, call.args[1])))
                    => create_from_quaternion(ScaleVec(s, call.args[1])) = call.out.value
           /\ call.after = call.args

C9_Witness ==
    /\ call.op = "create_from_quaternion"
    /\ IsNonZero(call.args[1])
    /\ ~IsUnit(call.args[1])
    /\ NormIsDecided(call.args[1])
    /\ \E s \in Scalings : IsUnit(ScaleVec(s, call.args[1]))
    /\ call.args[1][1] # Zero /\ call.args[1][4] # Zero

\* C4: applying multiply(m1, m2) to a vector of 3 is applying m1 and then m2.
C4_ProductAppliesInOrder ==
    call.op = "multiply"
        => \A v \in Vecs(3, MaxV) :
              apply_to_vector(call.out.value, v)
                = apply_to_vector(call.args[2], apply_to_vector(call.args[1], v).value)

C4_Witness ==
    /\ call.op = "multiply"
    /\ multiply(call.args[1], call.args[2]) # multiply(call.args[2], call.args[1])

\* C5: for a vector (x, y, z, w), apply_to_vector(M, v) is the vector of 4
\* made of (x/w, y/w, z/w) times M and of 1.0, whatever w and M are.
C5_HomogeneousResult ==
    (call.op = "apply_to_vector" /\ Len(call.args[2]) = 4)
        => LET M == call.args[1]
               v == call.args[2]
               p == <<Div(v[1], v[4]), Div(v[2], v[4]), Div(v[3], v[4])>>
               r == call.out.value
           IN  /\ call.out.raised = ""
               /\ Len(r) = 4
               /\ r[4] = One
               /\ \A j \in 1..3 :
                     r[j] = Add(Mul(p[1], M[1][j]), Add(Mul(p[2], M[2][j]), Mul(p[3], M[3][j])))

C5_Witness ==
    /\ call.op = "apply_to_vector"
    /\ Len(call.args[2]) = 4
    /\ call.args[2][4] = R(-1)
    /\ call.args[1] # create_identity
    /\ IsNonZero(call.out.value)

\* C5 also where w is 0: the first three elements are infinite or nan
C5_WitnessZeroW ==
    /\ call.op = "apply_to_vector"
    /\ Len(call.args[2]) = 4
    /\ call.args[2][4] = Zero
    /\ call.out.value[4] = One

C7_WitnessSingular ==
    /\ call.op = "inverse"
    /\ call.out.raised = "LinAlgError"
    /\ \A i \in 1..3 : IsNonZero(call.args[1][i])

-----------------------------------------------------------------------------
(* src/pyrr/ray.py.                                                        *)
(*                                                                         *)
(* heap[b] is the buffer of the array object b.  An array is a window on a *)
(* buffer, [buf, off, len]: indexing an array gives a window on the same   *)
(* buffer, copy() gives a window on a new one.  A ray is an array of 6,    *)
(* row 0 its origin and row 1 its direction.                               *)

\* The arrays a run may allocate
MaxObjs == 3

\* The element assignments the caller may make
MaxWrites == 1

Contents(hp, a) == SubSeq(hp[a.buf], a.off + 1, a.off + a.len)

\* a[k], for a of shape (2, 3)
RowView(a, k) == [buf |-> a.buf, off |-> a.off + 3 * k, len |-> 3]

\* a.copy()
Copy(hp, a) ==
    [heap |-> Append(hp, Contents(hp, a)),
     ret |-> [buf |-> Len(hp) + 1, off |-> 0, len |-> a.len]]

\* a *= x
IMul(hp, a, x) ==
    [hp EXCEPT ![a.buf] =
        [i \in 1..Len(@) |->
            IF i > a.off /\ i <= a.off + a.len THEN Mul(@[i], x) ELSE @[i]]]

\* a[i] = x
SetItem(hp, a, i, x) == [hp EXCEPT ![a.buf][a.off + i] = x]

\* The elements of a normalised array whose norm is rational
Elements(arr) ==
    LET root(n) == CHOOSE r \in 0..n : r * r = n
    IN  [i \in 1..Len(arr.v) |-> Div(arr.v[i], Q(root(arr.s[1]), root(arr.s[2])))]

\* The buffer of the new array
create(start_, direction_) == start_ \o Elements(vector_normalise(direction_))

invert_in_place(hp, r) == [heap |-> IMul(hp, RowView(r, 1), R(-1)), ret |-> r]

\* r is an array already, and the decorator passes it on as it is
invert(hp, r) ==
    LET r2 == Copy(hp, r)
    IN  [heap |-> IMul(r2.heap, RowView(r2.ret, 1), R(-1)), ret |-> r2.ret]

start_view(hp, ray) == [heap |-> hp, ret |-> RowView(ray, 0)]

start(hp, ray) == Copy(hp, RowView(ray, 0))

direction(hp, ray) == Copy(hp, RowView(ray, 1))

RayStarts == {<<R(a), R(-a), R(1)>> : a \in 0..MaxV}

\* Directions of rational length
RayDirections ==
    {<<Zero, R(-2), Zero>>, <<R(2), R(-2), One>>}

WriteValues == {R(7)}

InitRay ==
    /\ call = NoCall
    /\ \E start_ \in RayStarts, direction_ \in RayDirections :
          heap = <<create(start_, direction_)>>
    /\ held = {[arr |-> [buf |-> 1, off |-> 0, len |-> 6], kind |-> "ray",
                via |-> "create", from |-> 0]}
    /\ last = [op |-> "none"]
    /\ writes = 0

RayInvert ==
    /\ Len(heap) < MaxObjs
    /\ \E h \in held :
          /\ h.kind = "ray"
          /\ LET done == invert(heap, h.arr)
             IN  /\ heap' = done.heap
                 /\ held' = held \cup {[arr |-> done.ret, kind |-> "ray",
                                        via |-> "invert", from |-> h.arr.buf]}
                 /\ last' = [op |-> "invert", src |-> h.arr, res |-> done.ret]
    /\ UNCHANGED <<call, writes>>

RayStart ==
    /\ Len(heap) < MaxObjs
    /\ \E h \in held :
          /\ h.kind = "ray"
          /\ LET done == start(heap, h.arr)
             IN  /\ heap' = done.heap
                 /\ held' = held \cup {[arr |-> done.ret, kind |-> "vector",
                                        via |-> "start", from |-> h.arr.buf]}
                 /\ last' = [op |-> "start", src |-> h.arr, res |-> done.ret]
    /\ UNCHANGED <<call, writes>>

RayDirection ==
    /\ Len(heap) < MaxObjs
    /\ \E h \in held :
          /\ h.kind = "ray"
          /\ LET done == direction(heap, h.arr)
             IN  /\ heap' = done.heap
                 /\ held' = held \cup {[arr |-> done.ret, kind |-> "vector",
                                        via |-> "direction", from |-> h.arr.buf]}
                 /\ last' = [op |-> "direction", src |-> h.arr, res |-> done.ret]
    /\ UNCHANGED <<call, writes>>

\* The caller assigns an element of an array it holds
Write ==
    /\ writes < MaxWrites
    /\ \E h \in held, x \in WriteValues :
          \E i \in 1..h.arr.len :
              /\ heap' = SetItem(heap, h.arr, i, x)
              /\ last' = [op |-> "write", src |-> h.arr, res |-> h.arr, via |-> h.via]
    /\ writes' = writes + 1
    /\ UNCHANGED <<call, held>>

NextRay ==
    \/ RayInvert
    \/ RayStart
    \/ RayDirection
    \/ Write

SpecRay == InitRay /\ [][NextRay]_vars

-----------------------------------------------------------------------------
(* Properties of the ray functions *)

Rays == {h.arr : h \in {g \in held : g.kind = "ray"}}

\* C10: invert(r) gives a new ray with r's origin and the negation of r's
\* direction, leaves r as it was, and inverted again gives back r; start and
\* direction give copies, so that assigning to what they gave changes no ray.
C10_Step ==
    /\ last'.op = "invert" =>
          LET r == last'.src
              r2 == last'.res
              again == invert(heap', r2)
          IN  /\ r2.buf \notin 1..Len(heap)
              /\ Contents(heap', RowView(r2, 0)) = Contents(heap, RowView(r, 0))
              /\ Contents(heap', RowView(r2, 1))
                   = [i \in 1..3 |-> Neg(Contents(heap, RowView(r, 1))[i])]
              /\ Contents(heap', r) = Contents(heap, r)
              /\ Contents(again.heap, again.ret) = Contents(heap, r)
    /\ last'.op = "start" =>
          Contents(heap', last'.res) = Contents(heap, RowView(last'.src, 0))
    /\ last'.op = "direction" =>
          Contents(heap', last'.res) = Contents(heap, RowView(last'.src, 1))
    /\ (last'.op = "write" /\ last'.via \in {"start", "direction"}) =>
          \A r \in Rays : Contents(heap', r) = Contents(heap, r)

C10_InvertAndCopies == [][C10_Step]_vars

\* A vector that start or direction gave has been assigned to, while an
\* inverted ray of another direction is held.
C10_Witness ==
    /\ last.op = "write"
    /\ last.via \in {"start", "direction"}
    /\ \E g, h \in held :
          /\ h.via = "invert"
          /\ h.from = g.arr.buf
          /\ Contents(heap, h.arr) # Contents(heap, g.arr)

=============================================================================
